---- MODULE Spec2Model ----
(***************************************************************************)
(* Flush+Reload cache timing demo of                                       *)
(* trusted_os_usbarmory/internal/cache_timer.go (CacheTimerDemo).          *)
(*                                                                         *)
(* The program is one sequential function.  The model follows it statement *)
(* by statement: pc is the position in CacheTimerDemo, the other variables *)
(* are its locals and the two pieces of hardware it talks to, the PMU      *)
(* cycle counter (a 32-bit register) and the L1 data cache (the set of     *)
(* target lines that are resident).                                        *)
(*                                                                         *)
(* Numbers.  TLC integers are 32-bit signed, so the uint32 counter is kept *)
(* as two 16-bit limbs and end - start is computed limb-wise modulo 2^32.  *)
(* float64 values are kept as reduced fractions.  The latencies and sample *)
(* counts of the model are such that every float64 operation of the code   *)
(* is exact on them (see FloatExact), so the fractions are the float64     *)
(* values themselves.                                                      *)
(***************************************************************************)
EXTENDS Integers, Sequences, FiniteSets, TLC

\* ------------------------------------------------------------------------
\* Program constants
\* ------------------------------------------------------------------------
cacheLineSize == 32

numLinesCode == 16

calibSamplesCode == 100

distSamples == 10

\* victimPattern literal of the program, indexed from 0 as in the source
CodePattern ==
    LET lit == <<TRUE, FALSE, TRUE, TRUE, FALSE, FALSE, TRUE, FALSE,
                 TRUE, FALSE, FALSE, TRUE, TRUE, FALSE, TRUE, FALSE>>
    IN  [l \in 0..(numLinesCode - 1) |-> lit[l + 1]]

\* ------------------------------------------------------------------------
\* Bounds of the model
\* ------------------------------------------------------------------------
\* line counts other than the program's 16: 2^1 .. 2^MaxLineExp, with every
\* access pattern of that length (the second distribution loop reads line 1,
\* so the buffer has at least two lines)
MaxLineExp == 2

\* sample counts other than the program's 100: 2^0 .. 2^MaxSampleExp
MaxSampleExp == 2

\* per-access extra cycles when the hardware is noisy: 0..MaxJitter
MaxJitter == 1

\* ------------------------------------------------------------------------
\* Input spaces
\* ------------------------------------------------------------------------
RECURSIVE Pow2(_)
Pow2(n) == IF n = 0 THEN 1 ELSE 2 * Pow2(n - 1)

LineCounts == {Pow2(e) : e \in 1..MaxLineExp} \cup {numLinesCode}

SampleCounts == {Pow2(e) : e \in 0..MaxSampleExp} \cup {calibSamplesCode}

\* cycles taken by a read of a resident line / of a non-resident line
HitLatencies == {0, 10}

MissLatencies == {0, 10, 200}

\* sample counts taken on noisy hardware
NoisySampleCounts == {Pow2(e) : e \in 0..(MaxSampleExp - 1)}

Patterns(n) ==
    IF n = numLinesCode THEN {CodePattern} ELSE [0..(n - 1) -> BOOLEAN]

None == [num |-> -1, den |-> 1]

NoCal == [hitAvg |-> None, missAvg |-> None, threshold |-> None]

\* ------------------------------------------------------------------------
\* uint32 as two 16-bit limbs
\* ------------------------------------------------------------------------
Limb == 65536

U32(h, l) == [hi |-> h, lo |-> l]

\* (c + n) mod 2^32 for 0 <= n < 2^16
Add32(c, n) ==
    LET l == c.lo + n
    IN  U32((c.hi + (l \div Limb)) % Limb, l % Limb)

\* a subtraction that skips the negative high limb when the low limb borrows
Sub32_NoBorrow(e, s) ==
    U32((e.hi - s.hi + Limb) % Limb, (e.lo - s.lo + Limb) % Limb)

\* a subtraction that clamps a negative difference to zero
Sub32_Saturating(e, s) ==
    IF e.hi < s.hi \/ (e.hi = s.hi /\ e.lo < s.lo)
    THEN U32(0, 0)
    ELSE U32(e.hi - s.hi - (IF e.lo < s.lo THEN 1 ELSE 0),
             (e.lo - s.lo + Limb) % Limb)

\* (e - s) mod 2^32
Sub32(e, s) ==
    LET borrow == IF e.lo < s.lo THEN 1 ELSE 0
    IN  U32((e.hi - s.hi - borrow + Limb) % Limb, (e.lo - s.lo + Limb) % Limb)

\* uint64(x) of a uint32 x: zero extension, the value is kept
ToUint64(x) == x.hi * Limb + x.lo

\* values the free-running counter may show when a measurement starts:
\* far from the wrap, and 6 cycles before it
CounterValues == {U32(0, 1000), U32(65535, 65530)}

\* ------------------------------------------------------------------------
\* float64 as reduced fractions
\* ------------------------------------------------------------------------
RECURSIVE GCD(_, _)
GCD(a, b) == IF b = 0 THEN a ELSE GCD(b, a % b)

Float(n, d) ==
    LET g == GCD(n, d)
    IN  IF n = 0 THEN [num |-> 0, den |-> 1]
        ELSE [num |-> n \div g, den |-> d \div g]

FAdd(a, b) == Float(a.num * b.den + b.num * a.den, a.den * b.den)

FDiv(a, b) == Float(a.num * b.den, a.den * b.num)

FMul(a, b) == Float(a.num * b.num, a.den * b.den)

FLess(a, b) == a.num * b.den < b.num * a.den

VARIABLES
    pc,            \* position in CacheTimerDemo
    counter,       \* PMCCNTR, 32 bits
    cached,        \* target lines resident in the data cache
    target,        \* target buffer
    numLines, calibSamples,
    hitLat, missLat, noisy,      \* behaviour of the memory system
    i, hitSum, missSum, start, end,
    hitAvg, missAvg, threshold,
    victimPattern, detected, line, timing,
    correct, accuracy,
    dist,          \* iteration of the two timing distribution loops
    ops,           \* hardware operations issued in the current loop iteration
    prevCal        \* result of an earlier calibration run, None if there is none

vars == <<pc, counter, cached, target, numLines, calibSamples, hitLat, missLat,
          noisy, i, hitSum, missSum, start, end, hitAvg, missAvg, threshold,
          victimPattern, detected, line, timing, correct, accuracy, dist, ops,
          prevCal>>

hw == <<numLines, calibSamples, hitLat, missLat, noisy>>

Op(name, arg) == [op |-> name, arg |-> arg]

Jitter == IF noisy THEN 0..MaxJitter ELSE {0}

\* cycles a read of byte offset ptr of target takes in the current cache state
Latency(ptr) == IF (ptr \div cacheLineSize) \in cached THEN hitLat ELSE missLat

\* line offset of &target[l*cacheLineSize]
LinePtr(l) == l * cacheLineSize

Empty == [x \in {} |-> 0]

Init ==
    /\ pc = "init"
    /\ counter = U32(0, 0)
    /\ cached = {}
    /\ target = Empty
    /\ numLines \in LineCounts
    /\ calibSamples \in SampleCounts
    /\ hitLat \in HitLatencies
    /\ missLat \in MissLatencies
    /\ noisy \in BOOLEAN
    /\ noisy => (calibSamples \in NoisySampleCounts /\ numLines = Pow2(1))
    /\ i = 0
    /\ hitSum = 0
    /\ missSum = 0
    /\ start = U32(0, 0)
    /\ end = U32(0, 0)
    /\ hitAvg = None
    /\ missAvg = None
    /\ threshold = None
    /\ victimPattern = Empty
    /\ detected = Empty
    /\ line = 0
    /\ timing = None
    /\ correct = 0
    /\ accuracy = None
    /\ dist = 0
    /\ ops = <<>>
    /\ prevCal = NoCal

\* ------------------------------------------------------------------------
\* Hardware primitives
\* ------------------------------------------------------------------------
\* accessByte(ptr): one read of target[ptr]; the line becomes resident and the
\* counter advances by the latency of the read
AccessByte(ptr) ==
    /\ \E j \in Jitter : counter' = Add32(counter, Latency(ptr) + j)
    /\ cached' = cached \cup {ptr \div cacheLineSize}
    /\ ops' = Append(ops, Op("access", ptr \div cacheLineSize))

\* readPMUCycleCounter() opening a measurement: an unknown number of cycles
\* has passed since the last read
ReadCounterStart ==
    /\ counter' \in CounterValues
    /\ start' = counter'
    /\ ops' = Append(ops, Op("ctr", -1))

\* readPMUCycleCounter() closing a measurement, right after the access
ReadCounterEnd ==
    /\ end' = counter
    /\ ops' = Append(ops, Op("ctr", -1))

\* ------------------------------------------------------------------------
\* CacheTimerDemo, lines 65-101: set-up
\* ------------------------------------------------------------------------
InitPMU ==
    /\ pc = "init"
    /\ counter' = U32(0, 0)
    /\ pc' = "target"
    /\ UNCHANGED <<cached, target, hw, i, hitSum, missSum, start, end, hitAvg,
                   missAvg, threshold, victimPattern, detected, line, timing,
                   correct, accuracy, dist, ops, prevCal>>

\* the stores that fill the buffer may or may not leave its lines resident
MakeTarget ==
    /\ pc = "target"
    /\ target' = [b \in 0..(cacheLineSize * numLines - 1) |-> b % 256]
    /\ cached' \in {{}, 0..(numLines - 1)}
    /\ pc' = "cal_loop"
    /\ UNCHANGED <<counter, hw, i, hitSum, missSum, start, end, hitAvg,
                   missAvg, threshold, victimPattern, detected, line, timing,
                   correct, accuracy, dist, ops, prevCal>>

\* ------------------------------------------------------------------------
\* CacheTimerDemo, lines 105-131: calibration
\* ------------------------------------------------------------------------
calFrame == <<target, hw, hitAvg, missAvg, threshold, victimPattern, detected,
              line, timing, correct, accuracy, dist, prevCal>>

\* the loop condition i < calibSamples, negated
CalibrationDone_OffByOne == i >= calibSamples - 1

CalibrationDone == i >= calibSamples

CalPrime_NoPrime ==
    /\ pc = "cal_loop"
    /\ ~CalibrationDone
    /\ ops' = <<Op("dsb", -1)>>
    /\ pc' = "cal_hit_start"
    /\ UNCHANGED <<calFrame, counter, cached, i, hitSum, missSum, start, end>>

CalPrime ==
    /\ pc = "cal_loop"
    /\ ~CalibrationDone
    /\ \E j \in Jitter : counter' = Add32(counter, Latency(LinePtr(0)) + j)
    /\ cached' = cached \cup {0}
    /\ ops' = <<Op("access", 0), Op("dsb", -1)>>
    /\ pc' = "cal_hit_start"
    /\ UNCHANGED <<calFrame, i, hitSum, missSum, start, end>>

CalHitStart ==
    /\ pc = "cal_hit_start"
    /\ ReadCounterStart
    /\ pc' = "cal_hit_access"
    /\ UNCHANGED <<calFrame, cached, i, hitSum, missSum, end>>

CalHitAccess ==
    /\ pc = "cal_hit_access"
    /\ AccessByte(LinePtr(0))
    /\ pc' = "cal_hit_end"
    /\ UNCHANGED <<calFrame, i, hitSum, missSum, start, end>>

CalHitEnd ==
    /\ pc = "cal_hit_end"
    /\ ReadCounterEnd
    /\ hitSum' = hitSum + ToUint64(Sub32(end', start))
    /\ pc' = "cal_flush"
    /\ UNCHANGED <<calFrame, counter, cached, i, missSum, start>>

\* a miss measurement that forgets the flush
CalFlush_NoFlush ==
    /\ pc = "cal_flush"
    /\ ops' = ops \o <<Op("flush", -1), Op("dsb", -1)>>
    /\ pc' = "cal_miss_start"
    /\ UNCHANGED <<calFrame, counter, cached, i, hitSum, missSum, start, end>>

CalFlush ==
    /\ pc = "cal_flush"
    /\ cached' = {}
    /\ ops' = ops \o <<Op("flush", -1), Op("dsb", -1)>>
    /\ pc' = "cal_miss_start"
    /\ UNCHANGED <<calFrame, counter, i, hitSum, missSum, start, end>>

CalMissStart ==
    /\ pc = "cal_miss_start"
    /\ ReadCounterStart
    /\ pc' = "cal_miss_access"
    /\ UNCHANGED <<calFrame, cached, i, hitSum, missSum, end>>

CalMissAccess ==
    /\ pc = "cal_miss_access"
    /\ AccessByte(LinePtr(0))
    /\ pc' = "cal_miss_end"
    /\ UNCHANGED <<calFrame, i, hitSum, missSum, start, end>>

CalMissEnd ==
    /\ pc = "cal_miss_end"
    /\ ReadCounterEnd
    /\ missSum' = missSum + ToUint64(Sub32(end', start))
    /\ i' = i + 1
    /\ pc' = "cal_loop"
    /\ UNCHANGED <<calFrame, counter, cached, hitSum, start>>

\* float64(sum) / float64(calibSamples)
Average(sum, n) == FDiv(Float(sum, 1), Float(n, 1))

Midpoint_NoHalf(a, b) == FAdd(a, b)

\* (hitAvg + missAvg) / 2.0
Midpoint(a, b) == FDiv(FAdd(a, b), Float(2, 1))

\* a calibration that gives up when the averages do not separate
CalcThreshold_AbortNoSeparation ==
    /\ pc = "cal_loop"
    /\ CalibrationDone
    /\ missSum > hitSum
    /\ hitAvg' = Average(hitSum, calibSamples)
    /\ missAvg' = Average(missSum, calibSamples)
    /\ threshold' = Midpoint(hitAvg', missAvg')
    /\ pc' = "pattern"
    /\ UNCHANGED <<counter, cached, target, hw, i, hitSum, missSum, start, end,
                   victimPattern, detected, line, timing, correct, accuracy,
                   dist, ops, prevCal>>

CalcThreshold ==
    /\ pc = "cal_loop"
    /\ CalibrationDone
    /\ hitAvg' = Average(hitSum, calibSamples)
    /\ missAvg' = Average(missSum, calibSamples)
    /\ threshold' = Midpoint(hitAvg', missAvg')
    /\ pc' = "pattern"
    /\ UNCHANGED <<counter, cached, target, hw, i, hitSum, missSum, start, end,
                   victimPattern, detected, line, timing, correct, accuracy,
                   dist, ops, prevCal>>

\* ------------------------------------------------------------------------
\* CacheTimerDemo, lines 141-179: probing pass
\* ------------------------------------------------------------------------
MakePattern ==
    /\ pc = "pattern"
    /\ victimPattern' \in Patterns(numLines)
    /\ detected' = [l \in 0..(numLines - 1) |-> FALSE]
    /\ line' = 0
    /\ pc' = "probe_loop"
    /\ UNCHANGED <<counter, cached, target, hw, i, hitSum, missSum, start, end,
                   hitAvg, missAvg, threshold, timing, correct, accuracy, dist,
                   ops, prevCal>>

probeFrame == <<target, hw, i, hitSum, missSum, hitAvg, missAvg, threshold,
                victimPattern, line, correct, accuracy, dist, prevCal>>

ProbeFlush_NoFlush ==
    /\ pc = "probe_loop"
    /\ line < numLines
    /\ ops' = <<Op("flush", -1), Op("dsb", -1)>>
    /\ pc' = "victim"
    /\ UNCHANGED <<probeFrame, counter, cached, start, end, detected, timing>>

ProbeFlush ==
    /\ pc = "probe_loop"
    /\ line < numLines
    /\ cached' = {}
    /\ ops' = <<Op("flush", -1), Op("dsb", -1)>>
    /\ pc' = "victim"
    /\ UNCHANGED <<probeFrame, counter, start, end, detected, timing>>

SimulateVictimAccess_Always(ptr, shouldAccess) ==
    /\ \E j \in Jitter : counter' = Add32(counter, Latency(ptr) + j)
    /\ cached' = cached \cup {ptr \div cacheLineSize}
    /\ ops' = ops \o <<Op("victim", ptr \div cacheLineSize),
                      Op("access", ptr \div cacheLineSize)>>

\* simulateVictimAccess(ptr, shouldAccess)
SimulateVictimAccess(ptr, shouldAccess) ==
    IF shouldAccess
    THEN /\ \E j \in Jitter : counter' = Add32(counter, Latency(ptr) + j)
         /\ cached' = cached \cup {ptr \div cacheLineSize}
         /\ ops' = ops \o <<Op("victim", ptr \div cacheLineSize),
                           Op("access", ptr \div cacheLineSize)>>
    ELSE /\ ops' = Append(ops, Op("victim", ptr \div cacheLineSize))
         /\ UNCHANGED <<counter, cached>>

VictimTurn ==
    /\ pc = "victim"
    /\ SimulateVictimAccess(LinePtr(line), victimPattern[line])
    /\ pc' = "reload_start"
    /\ UNCHANGED <<probeFrame, start, end, detected, timing>>

ReloadStart ==
    /\ pc = "reload_start"
    /\ ReadCounterStart
    /\ pc' = "reload_access"
    /\ UNCHANGED <<probeFrame, cached, end, detected, timing>>

ReloadAccess ==
    /\ pc = "reload_access"
    /\ AccessByte(LinePtr(line))
    /\ pc' = "reload_end"
    /\ UNCHANGED <<probeFrame, start, end, detected, timing>>

ReloadEnd ==
    /\ pc = "reload_end"
    /\ ReadCounterEnd
    /\ timing' = Float(ToUint64(Sub32(end', start)), 1)
    /\ pc' = "classify"
    /\ UNCHANGED <<probeFrame, counter, cached, start, detected>>

WasAccessed_Inverted(t, thr) == FLess(thr, t)

WasAccessed_NonStrict(t, thr) == ~FLess(thr, t)

\* wasAccessed := timing < threshold
WasAccessed(t, thr) == FLess(t, thr)

Classify_WritesPattern ==
    /\ pc = "classify"
    /\ victimPattern' =
          [victimPattern EXCEPT ![line] = WasAccessed(timing, threshold)]
    /\ line' = line + 1
    /\ pc' = "probe_loop"
    /\ UNCHANGED <<counter, cached, target, hw, i, hitSum, missSum, start, end,
                   hitAvg, missAvg, threshold, detected, timing, correct,
                   accuracy, dist, ops, prevCal>>

Classify ==
    /\ pc = "classify"
    /\ detected' = [detected EXCEPT ![line] = WasAccessed(timing, threshold)]
    /\ line' = line + 1
    /\ pc' = "probe_loop"
    /\ UNCHANGED <<counter, cached, target, hw, i, hitSum, missSum, start, end,
                   hitAvg, missAvg, threshold, victimPattern, timing, correct,
                   accuracy, dist, ops, prevCal>>

\* ------------------------------------------------------------------------
\* CacheTimerDemo, lines 181-190: accuracy
\* ------------------------------------------------------------------------
RECURSIVE CountCorrect_SkipFirst(_, _, _)
CountCorrect_SkipFirst(d, p, n) ==
    IF n <= 1 THEN 0
    ELSE CountCorrect_SkipFirst(d, p, n - 1)
            + (IF d[n - 1] = p[n - 1] THEN 1 ELSE 0)

\* the counting loop over i = 0 .. n-1
RECURSIVE CountCorrect(_, _, _)
CountCorrect(d, p, n) ==
    IF n = 0 THEN 0
    ELSE CountCorrect(d, p, n - 1) + (IF d[n - 1] = p[n - 1] THEN 1 ELSE 0)

Accuracy_NoPercent(c, n) == FDiv(Float(c, 1), Float(n, 1))

\* float64(correct) / float64(numLines) * 100.0
Accuracy(c, n) == FMul(FDiv(Float(c, 1), Float(n, 1)), Float(100, 1))

\* a report computed when the last line is still to be probed
CalcAccuracy_Early ==
    /\ pc = "probe_loop"
    /\ line >= numLines - 1
    /\ correct' = CountCorrect(detected, victimPattern, numLines)
    /\ accuracy' = Accuracy(correct', numLines)
    /\ dist' = 0
    /\ pc' = "dist_hit"
    /\ UNCHANGED <<counter, cached, target, hw, i, hitSum, missSum, start, end,
                   hitAvg, missAvg, threshold, victimPattern, detected, line,
                   timing, ops, prevCal>>

CalcAccuracy ==
    /\ pc = "probe_loop"
    /\ line >= numLines
    /\ correct' = CountCorrect(detected, victimPattern, numLines)
    /\ accuracy' = Accuracy(correct', numLines)
    /\ dist' = 0
    /\ pc' = "dist_hit"
    /\ UNCHANGED <<counter, cached, target, hw, i, hitSum, missSum, start, end,
                   hitAvg, missAvg, threshold, victimPattern, detected, line,
                   timing, ops, prevCal>>

\* ------------------------------------------------------------------------
\* CacheTimerDemo, lines 192-220: timing distribution samples (logged only)
\* ------------------------------------------------------------------------
distFrame == <<target, hw, i, hitSum, missSum, hitAvg, missAvg, threshold,
               victimPattern, detected, line, timing, correct, accuracy,
               prevCal>>

\* the ten iterations of one loop: flush, barrier, victim turn, timed read of
\* line l; start, end and timing are locals of the loop body
DistLoop(l, shouldAccess) ==
    /\ \E c \in CounterValues, j \in Jitter :
          counter' = Add32(c, (IF shouldAccess THEN hitLat ELSE missLat) + j)
    /\ cached' = {l}
    /\ ops' = <<Op("flush", -1), Op("dsb", -1), Op("victim", l)>>
              \o (IF shouldAccess THEN <<Op("access", l)>> ELSE <<>>)
              \o <<Op("ctr", -1), Op("access", l), Op("ctr", -1)>>
    /\ dist' = distSamples

DistAccessed ==
    /\ pc = "dist_hit"
    /\ DistLoop(0, TRUE)
    /\ pc' = "dist_miss"
    /\ UNCHANGED <<distFrame, start, end>>

DistNotAccessed ==
    /\ pc = "dist_miss"
    /\ DistLoop(1, FALSE)
    /\ pc' = "done"
    /\ UNCHANGED <<distFrame, start, end>>

Next ==
    \/ InitPMU
    \/ MakeTarget
    \/ CalPrime
    \/ CalHitStart
    \/ CalHitAccess
    \/ CalHitEnd
    \/ CalFlush
    \/ CalMissStart
    \/ CalMissAccess
    \/ CalMissEnd
    \/ CalcThreshold
    \/ MakePattern
    \/ ProbeFlush
    \/ VictimTurn
    \/ ReloadStart
    \/ ReloadAccess
    \/ ReloadEnd
    \/ Classify
    \/ CalcAccuracy
    \/ DistAccessed
    \/ DistNotAccessed

Spec == Init /\ [][Next]_vars

\* CacheTimerDemo is straight-line code on one core with no suspension point:
\* a statement that can run does run
\* the runs checked for progress: the smallest buffer and the program's own,
\* noisy hardware with a single calibration sample
InitFair ==
    /\ Init
    /\ numLines \in {Pow2(1), numLinesCode}
    /\ noisy => (calibSamples = Pow2(0))

SpecFair == InitFair /\ [][Next]_vars /\ WF_vars(Next)

\* ------------------------------------------------------------------------
\* Calibration run a second time, from the state the first run left behind.
\* CacheTimerDemo calibrates once; SpecRecal re-enters lines 105-131 (hitSum
\* and missSum declared zero, i := 0) after keeping the first result in
\* prevCal, under deterministic latencies.
\* ------------------------------------------------------------------------
Recalibrate ==
    /\ pc = "pattern"
    /\ prevCal = NoCal
    /\ ~noisy
    /\ prevCal' = [hitAvg |-> hitAvg, missAvg |-> missAvg,
                   threshold |-> threshold]
    /\ i' = 0
    /\ hitSum' = 0
    /\ missSum' = 0
    /\ pc' = "cal_loop"
    /\ UNCHANGED <<counter, cached, target, hw, start, end, hitAvg, missAvg,
                   threshold, victimPattern, detected, line, timing, correct,
                   accuracy, dist, ops>>

NextRecal == Next \/ Recalibrate

SpecRecal == Init /\ [][NextRecal]_vars

\* ------------------------------------------------------------------------
\* Well-formedness of the model
\* ------------------------------------------------------------------------
TypeOK ==
    /\ counter.hi \in 0..(Limb - 1) /\ counter.lo \in 0..(Limb - 1)
    /\ cached \subseteq 0..(numLines - 1)
    /\ i \in 0..calibSamples
    /\ line \in 0..numLines

IsPow2(n) == \E e \in 0..30 : n = Pow2(e)

\* every float64 division of the run is exact: the divisor is a power of two
\* or divides the dividend
FloatExact ==
    /\ IsPow2(numLines)
    /\ (pc = "cal_loop" /\ CalibrationDone) =>
          \/ IsPow2(calibSamples)
          \/ hitSum % calibSamples = 0 /\ missSum % calibSamples = 0

Reported == pc \in {"dist_hit", "dist_miss", "done"}

Deterministic == ~noisy

\* ------------------------------------------------------------------------
\* C1
\* ------------------------------------------------------------------------
\* C1: with deterministic latencies hit < miss, the finished run has
\* detected[i] = pattern[i] at every index, correct = N and percentage = 100.
C1_FullAccuracy ==
    (Reported /\ Deterministic /\ hitLat < missLat) =>
        /\ DOMAIN detected = 0..(numLines - 1)
        /\ \A l \in 0..(numLines - 1) : detected[l] = victimPattern[l]
        /\ correct = numLines
        /\ accuracy = [num |-> 100, den |-> 1]

\* the program's own scenario: 100 samples, 16 lines, its pattern, hit = 10
\* and miss = 200 cycles, threshold 105, report {16, 16, 100.0}
C1_Witness ==
    /\ pc = "done" /\ Deterministic
    /\ hitLat = 10 /\ missLat = 200
    /\ calibSamples = calibSamplesCode /\ numLines = numLinesCode
    /\ victimPattern = CodePattern
    /\ threshold = [num |-> 105, den |-> 1]
    /\ detected = CodePattern
    /\ correct = 16
    /\ accuracy = [num |-> 100, den |-> 1]

\* ------------------------------------------------------------------------
\* C2
\* ------------------------------------------------------------------------
\* C2: once calibration has produced its result, averageHit and averageMiss
\* are non-negative, each is its sum divided by the sample count, and the
\* threshold is exactly (averageHit + averageMiss) / 2; with deterministic
\* latencies 10 and 200 the result is 10, 200, 105.
C2_Calibration ==
    (threshold # None) =>
        /\ calibSamples >= 1
        /\ hitAvg.num >= 0 /\ hitAvg.den > 0
        /\ missAvg.num >= 0 /\ missAvg.den > 0
        /\ hitAvg.num * calibSamples = hitSum * hitAvg.den
        /\ missAvg.num * calibSamples = missSum * missAvg.den
        /\ 2 * threshold.num * hitAvg.den * missAvg.den
              = threshold.den * (hitAvg.num * missAvg.den
                                 + missAvg.num * hitAvg.den)
        /\ (Deterministic /\ hitLat = 10 /\ missLat = 200) =>
              /\ hitAvg = [num |-> 10, den |-> 1]
              /\ missAvg = [num |-> 200, den |-> 1]
              /\ threshold = [num |-> 105, den |-> 1]

\* a calibration over noisy samples whose averages are not whole numbers
C2_Witness ==
    /\ pc = "pattern"
    /\ noisy /\ calibSamples = 2
    /\ hitAvg.den > 1 /\ missAvg.den > 1
    /\ threshold.den > 1

\* ------------------------------------------------------------------------
\* C3
\* ------------------------------------------------------------------------
\* phases of the run: 0 Idle, 1 Calibrated, 2 Probing, 3 Reported
Phase(p) ==
    CASE p \in {"init", "target", "cal_loop", "cal_hit_start",
                "cal_hit_access", "cal_hit_end", "cal_flush", "cal_miss_start",
                "cal_miss_access", "cal_miss_end"} -> 0
      [] p = "pattern" -> 1
      [] p \in {"probe_loop", "victim", "reload_start", "reload_access",
                "reload_end", "classify"} -> 2
      [] OTHER -> 3

\* C3: the run goes Idle -> Calibrated -> Probing -> Reported without skipping
\* a phase; whenever a line is probed or classified, calibration has taken all
\* its samples and the threshold is the midpoint of the two averages; and once
\* computed, threshold, averageHit and averageMiss never change.
C3_CalibrateBeforeProbe ==
    [][ /\ Phase(pc') \in {Phase(pc), Phase(pc) + 1}
        /\ (Phase(pc') >= 1) =>
              /\ i' = calibSamples
              /\ threshold' # None
              /\ 2 * calibSamples * threshold'.num
                   = (hitSum' + missSum') * threshold'.den
        /\ (Phase(pc') = 0) => (threshold' = None)
        /\ (threshold # None) =>
              /\ threshold' = threshold
              /\ hitAvg' = hitAvg
              /\ missAvg' = missAvg ]_vars

\* a line is being classified against the threshold of a 100-sample calibration
C3_Witness ==
    /\ pc = "classify" /\ line = numLines - 1
    /\ i = calibSamplesCode /\ calibSamples = calibSamplesCode
    /\ threshold # None

\* ------------------------------------------------------------------------
\* C4
\* ------------------------------------------------------------------------
\* the hardware operations of the probe of line l under victim behaviour b
ProbeOps(l, b) ==
    <<Op("flush", -1), Op("dsb", -1), Op("victim", l)>>
    \o (IF b THEN <<Op("access", l)>> ELSE <<>>)
    \o <<Op("ctr", -1), Op("access", l), Op("ctr", -1)>>

\* C4: when line i has been reloaded, the operations issued for it are, in this
\* order, whole-cache flush, barrier, the victim turn for line i (one read of
\* line i if pattern[i], nothing otherwise) and the timed reload of line i,
\* with no flush and no other access in between.
C4_ProbeOrder ==
    (pc = "classify") => (ops = ProbeOps(line, victimPattern[line]))

\* a victim that touched its line and one that did not, both reloaded
C4_Witness ==
    /\ pc = "classify" /\ line = 1
    /\ victimPattern[0] /\ ~victimPattern[1]
    /\ Len(ops) = 6

\* ------------------------------------------------------------------------
\* C5
\* ------------------------------------------------------------------------
\* C5: at every victim turn no target line is resident, and with deterministic
\* latencies every stored detected[l] is determined by pattern[l], the
\* threshold and the two latencies alone.
C5_LineIndependence ==
    /\ (pc = "victim") => (cached = {})
    /\ (Phase(pc) >= 2 /\ Deterministic) =>
          \A l \in 0..(line - 1) :
             detected[l] =
                ((IF victimPattern[l] THEN hitLat ELSE missLat) * threshold.den
                    < threshold.num)

\* victim turn of an untouched line; the line before it was touched, reloaded
\* (which left it resident) and classified as accessed
C5_Witness ==
    /\ pc = "victim" /\ line >= 1
    /\ Deterministic /\ hitLat < missLat
    /\ victimPattern[line - 1] /\ detected[line - 1]
    /\ ~victimPattern[line]

\* ------------------------------------------------------------------------
\* C6
\* ------------------------------------------------------------------------
\* C6: in the report, correct is the number of indices where detected and
\* pattern agree, total is N, 0 <= correct <= total and percentage is
\* correct / total * 100.
C6_AccuracyReport ==
    Reported =>
        /\ DOMAIN detected = 0..(numLines - 1)
        /\ DOMAIN victimPattern = 0..(numLines - 1)
        /\ correct = Cardinality({l \in 0..(numLines - 1) :
                                     detected[l] = victimPattern[l]})
        /\ 0 <= correct /\ correct <= numLines
        /\ accuracy.num * numLines = correct * 100 * accuracy.den

\* a report with some lines right and some wrong
C6_Witness ==
    /\ pc = "done"
    /\ 0 < correct /\ correct < numLines
    /\ detected[0] # victimPattern[0]
    /\ accuracy = [num |-> 25, den |-> 1]

\* ------------------------------------------------------------------------
\* C7
\* ------------------------------------------------------------------------
\* C7: the classification step stores detected[line] = (timing < threshold),
\* strictly, so a timing equal to the threshold is stored as not accessed; it
\* changes neither timing nor threshold nor the hardware state nor any other
\* entry of detected.
C7_StrictClassify ==
    [][ (pc = "classify") =>
          /\ detected'[line] =
                (timing.num * threshold.den < threshold.num * timing.den)
          /\ (timing = threshold) => ~detected'[line]
          /\ \A l \in 0..(numLines - 1) :
                (l # line) => (detected'[l] = detected[l])
          /\ UNCHANGED <<timing, threshold, hitAvg, missAvg, counter, cached,
                         target, victimPattern>> ]_vars

\* a reload that took exactly the threshold was classified as not accessed
C7_Witness ==
    /\ pc = "probe_loop" /\ line >= 1
    /\ timing = threshold
    /\ ~detected[line - 1]

\* ------------------------------------------------------------------------
\* C8
\* ------------------------------------------------------------------------
Balanced(p, n) ==
    2 * Cardinality({l \in 0..(n - 1) : p[l]}) = n

\* C8: with identical deterministic hit and miss durations every line gets the
\* same classification whatever the pattern, and over a balanced pattern the
\* reported accuracy is 50%.
C8_NoSeparation ==
    (Reported /\ Deterministic /\ hitLat = missLat) =>
        /\ \A l, m \in 0..(numLines - 1) : detected[l] = detected[m]
        /\ Balanced(victimPattern, numLines) =>
              /\ 2 * correct = numLines
              /\ accuracy = [num |-> 50, den |-> 1]

\* the program's balanced 16-line pattern under hit = miss = 10
C8_Witness ==
    /\ pc = "done" /\ Deterministic
    /\ hitLat = 10 /\ missLat = 10
    /\ numLines = numLinesCode /\ victimPattern = CodePattern
    /\ Balanced(victimPattern, numLines)
    /\ correct = 8
    /\ accuracy = [num |-> 50, den |-> 1]

\* ------------------------------------------------------------------------
\* C9
\* ------------------------------------------------------------------------
\* C9: once the target buffer is filled it keeps its contents, and once the
\* access pattern is created it keeps its contents, in every later step of
\* the run.
C9_InputsReadOnly ==
    [][ /\ (target # Empty) => (target' = target)
        /\ (victimPattern # Empty) => (victimPattern' = victimPattern) ]_vars

\* the run is over and buffer and pattern are what they were created as
C9_Witness ==
    /\ pc = "done"
    /\ numLines = numLinesCode
    /\ victimPattern = CodePattern
    /\ \A b \in DOMAIN target : target[b] = b % 256
    /\ DOMAIN target = 0..(cacheLineSize * numLinesCode - 1)

\* ------------------------------------------------------------------------
\* C10
\* ------------------------------------------------------------------------
\* C10: with deterministic latencies, a second calibration started from the
\* cache state the first one left behind ends with the same averageHit,
\* averageMiss and threshold as the first.
C10_RecalibrationSame ==
    (prevCal # NoCal /\ pc = "pattern" /\ Deterministic) =>
        /\ prevCal.hitAvg = hitAvg
        /\ prevCal.missAvg = missAvg
        /\ prevCal.threshold = threshold

\* two calibrations of 100 samples each have finished
C10_Witness ==
    /\ prevCal # NoCal /\ pc = "pattern" /\ Deterministic
    /\ calibSamples = calibSamplesCode
    /\ hitLat = 10 /\ missLat = 200
    /\ prevCal.threshold = [num |-> 105, den |-> 1]

\* ------------------------------------------------------------------------
\* C11
\* ------------------------------------------------------------------------
\* calibration has taken all its samples and the miss samples are not slower
\* than the hit samples
InsufficientSeparation ==
    /\ pc = "cal_loop" /\ CalibrationDone
    /\ missSum <= hitSum

\* the run is over, with calibration values averageMiss <= averageHit, a
\* detection result for every line and an accuracy
ReportedUnseparated ==
    /\ pc = "done"
    /\ hitAvg # None /\ missAvg # None /\ threshold # None
    /\ ~FLess(hitAvg, missAvg)
    /\ DOMAIN detected = 0..(numLines - 1)
    /\ accuracy # None

\* C11: when calibration ends with averageMiss <= averageHit (averageHit = 0
\* included), the run still produces the calibration values and goes on
\* through the probing pass to the accuracy report.
C11_NoSeparationStillReports == InsufficientSeparation ~> ReportedUnseparated

\* a finished run whose calibration measured averageHit = averageMiss = 0
C11_Witness ==
    /\ pc = "done"
    /\ hitAvg = [num |-> 0, den |-> 1]
    /\ missAvg = [num |-> 0, den |-> 1]
    /\ threshold = [num |-> 0, den |-> 1]
    /\ accuracy # None

\* ------------------------------------------------------------------------
\* C12
\* ------------------------------------------------------------------------
\* a timed access has just been completed: the hit sample, the miss sample or
\* the reload of a line
TimedAccessDone ==
    \/ pc = "cal_flush"
    \/ pc = "cal_loop" /\ i > 0 /\ prevCal = NoCal
    \/ pc = "classify"

\* the line the last timed access read
TimedLine == IF pc = "classify" THEN line ELSE 0

\* the last n operations issued
LastOps(n) == SubSeq(ops, Len(ops) - n + 1, Len(ops))

\* C12: every completed timed access consisted of a counter read, exactly one
\* read of the address, a barrier and a second counter read, in this order,
\* and the reload duration is the difference of the two counter reads.
C12_TimedAccessBarrier ==
    TimedAccessDone =>
        /\ Len(ops) >= 4
        /\ LastOps(4) = <<Op("ctr", -1), Op("access", TimedLine),
                          Op("dsb", -1), Op("ctr", -1)>>
        /\ (pc = "classify") =>
              (timing = Float(ToUint64(Sub32(end, start)), 1))

\* ------------------------------------------------------------------------
\* C13
\* ------------------------------------------------------------------------
\* a < b as unsigned 32-bit numbers
Less32(a, b) == a.hi < b.hi \/ (a.hi = b.hi /\ a.lo < b.lo)

\* the durations a read of a line can take, resident or not
Durations(resident) ==
    {(IF resident THEN hitLat ELSE missLat) + j : j \in Jitter}

\* C13 as claimed: a timed access whose second counter read is numerically
\* smaller than its first is never added to the hit-sum or the miss-sum and
\* never classified against the threshold.
C13_WrapExcluded ==
    [][ /\ (pc = "cal_hit_end" /\ Less32(end', start)) => (hitSum' = hitSum)
        /\ (pc = "cal_miss_end" /\ Less32(end', start)) =>
              (missSum' = missSum)
        /\ (pc = "classify" /\ Less32(end, start)) =>
              (detected' = detected) ]_vars

\* C13 as amended: a timed access during which the counter wraps is handled
\* like any other.  Its uint32 difference end - start is the number of cycles
\* the read took, it is added to the hit-sum or the miss-sum, and a reload is
\* classified against the threshold.
C13_WrapIsOrdinarySample ==
    [][ /\ (pc = "cal_hit_end" /\ Less32(end', start)) =>
              (hitSum' - hitSum \in Durations(TRUE))
        /\ (pc = "cal_miss_end" /\ Less32(end', start)) =>
              (missSum' - missSum \in Durations(FALSE))
        /\ (pc = "reload_end" /\ Less32(end', start)) =>
              /\ timing'.den = 1
              /\ timing'.num \in Durations(victimPattern[line])
        /\ (pc = "classify" /\ Less32(end, start)) =>
              (detected'[line] =
                  (timing.num * threshold.den < threshold.num * timing.den)) ]_vars

\* the counter wrapped during the reload of a line the victim had touched, and
\* the line was classified as accessed; wrapped hit samples were summed
C13_Witness ==
    /\ pc = "probe_loop" /\ line >= 1
    /\ Less32(end, start)
    /\ victimPattern[line - 1] /\ detected[line - 1]
    /\ hitLat = 10 /\ missLat = 200
    /\ hitSum >= 10

\* ------------------------------------------------------------------------
\* C14
\* ------------------------------------------------------------------------
\* one step of the probing pass: the line index starts at 0 and moves only by
\* one, at the step that stores detected[line]; that step writes no other
\* entry and no other step writes detected; correct and accuracy are assigned
\* only by the step that leaves the loop with all N entries stored
ProbingStep ==
    /\ (pc = "pattern") => (line' = 0)
    /\ (pc = "classify") =>
          /\ line < numLines
          /\ line' = line + 1
          /\ \A l \in 0..(numLines - 1) :
                (l # line) => (detected'[l] = detected[l])
    /\ (pc \notin {"pattern", "classify"}) =>
          (line' = line /\ detected' = detected)
    /\ (correct' # correct \/ accuracy' # accuracy) =>
          (pc = "probe_loop" /\ line = numLines /\ pc' = "dist_hit")
    /\ (pc' \in {"dist_hit", "dist_miss", "done"}) => (line' = numLines)

AllLinesReported ==
    /\ pc = "done"
    /\ line = numLines
    /\ accuracy # None

\* C14: the probing pass visits the lines 0, 1, ..., N-1 in increasing order,
\* each once, storing one classification per step and never rewriting an
\* earlier one; the accuracy is computed only after all N are stored; and the
\* run always reaches the report.
C14_ProbeEachLineOnce == [][ProbingStep]_vars /\ <>AllLinesReported

\* the program's 16 lines have all been probed and the report is out
C14_Witness ==
    /\ pc = "done"
    /\ numLines = numLinesCode /\ line = numLinesCode
    /\ calibSamples = calibSamplesCode
    /\ accuracy # None

\* ------------------------------------------------------------------------
\* C15
\* ------------------------------------------------------------------------
\* hit samples summed so far: those of the finished iterations and, in the
\* second half of an iteration, its own
HitSamplesTaken ==
    i + (IF pc \in {"cal_flush", "cal_miss_start", "cal_miss_access",
                    "cal_miss_end"} THEN 1 ELSE 0)

\* C15: in every calibration iteration the reference line is resident when the
\* hit sample is timed and not resident when the miss sample is timed, so with
\* deterministic latencies the hit-sum is the number of hit samples times the
\* hit latency and the miss-sum the number of miss samples times the miss
\* latency; after calibration they are samples*hit and samples*miss.
C15_PrimedHitFlushedMiss ==
    /\ (pc = "cal_hit_access") => (0 \in cached)
    /\ (pc = "cal_miss_access") => (0 \notin cached)
    /\ Deterministic =>
          /\ hitSum = HitSamplesTaken * hitLat
          /\ missSum = i * missLat
    /\ (Deterministic /\ Phase(pc) >= 1) =>
          /\ hitSum = calibSamples * hitLat
          /\ missSum = calibSamples * missLat

\* the miss sample of a later iteration is about to be timed: the line, left
\* resident by the iteration before and primed again, has been flushed
C15_Witness ==
    /\ pc = "cal_miss_access" /\ i >= 1
    /\ 0 \notin cached
    /\ Deterministic /\ hitLat = 10 /\ missLat = 200
    /\ hitSum = 10 * (i + 1)
    /\ missSum = 200 * i

\* ------------------------------------------------------------------------
\* C16
\* ------------------------------------------------------------------------
\* whether the line of the last timed access was resident when it was read
TimedResident ==
    IF pc = "classify" THEN victimPattern[line] ELSE pc = "cal_flush"

\* C16: after every timed access the duration d = end - start is a 32-bit
\* unsigned value with start + d = end modulo 2^32, equal to the cycles the
\* read took also when the counter wrapped between the two reads; and the
\* sums stay below (number of samples) * 2^32, which for a sample count below
\* 2^32 is below 2^64.
C16_DurationModular ==
    /\ TimedAccessDone =>
          LET d == Sub32(end, start)
              carry == (start.lo + d.lo) \div Limb
          IN  /\ d.hi \in 0..(Limb - 1) /\ d.lo \in 0..(Limb - 1)
              /\ (start.lo + d.lo) % Limb = end.lo
              /\ (start.hi + d.hi + carry) % Limb = end.hi
              /\ ToUint64(d) \in Durations(TimedResident)
              /\ (pc = "classify") => (timing = [num |-> ToUint64(d), den |-> 1])
    /\ hitSum >= 0 /\ missSum >= 0
    /\ hitSum \div Limb <= HitSamplesTaken * Limb
    /\ missSum \div Limb <= i * Limb
    /\ (HitSamplesTaken = 0) => (hitSum = 0)
    /\ (i = 0) => (missSum = 0)
    /\ calibSamples \div Limb < Limb

\* the 100th miss sample was timed across the wrap of the counter and the
\* miss-sum is 100 times the miss latency
C16_Witness ==
    /\ pc = "cal_loop" /\ i = calibSamplesCode
    /\ calibSamples = calibSamplesCode
    /\ Less32(end, start)
    /\ Deterministic /\ hitLat = 10 /\ missLat = 200
    /\ Sub32(end, start) = U32(0, 200)
    /\ missSum = 20000

====
